---- MODULE Spec2Model ----
(***************************************************************************)
(* Model of machina/nets/simple_net.py: the two weight-initialisation      *)
(* policies, the four feed-forward modules (PolNet, MixturePolNet, VNet,   *)
(* QNet) and the two recurrent modules (PolNetLSTM, VNetLSTM).             *)
(*                                                                         *)
(* Tensors are sequences: a vector is a sequence of integers, a matrix a   *)
(* sequence of rows, a time-major batch a sequence of matrices.  Real      *)
(* arithmetic is replaced by integer arithmetic on small finite values:    *)
(* what the properties below depend on is which entries are read, written, *)
(* multiplied by 0 or by 1, and in what order, not the numerical values.   *)
(* The value Err stands for an exception raised by the tensor library      *)
(* (shape mismatch, empty concatenation), which aborts the call.           *)
(***************************************************************************)
EXTENDS Integers, Sequences, FiniteSets, TLC

VARIABLES
    self,      \* the module object: class, attributes, linear layers; "none" before construction
    pc,        \* "new" | "idle" | "loop" (inside the recurrent for-loop) | "done" (call returned)
    xs,        \* argument of the current/last forward: observations
    ac,        \* argument of the last QNet.forward: actions
    hs,        \* recurrent forward: the carried hidden-state pair <<h, c>> (local variable hs)
    h_masks,   \* recurrent forward: the reset mask argument [rank, data]
    hiddens,   \* recurrent forward: local list hiddens
    ret,       \* value returned by the last call ("Err" if it raised)
    trace      \* observation record of the last call (intermediate values)

vars == <<self, pc, xs, ac, hs, h_masks, hiddens, ret, trace>>

----------------------------------------------------------------------------
(* Bounds of the model *)

MaxT == 2          \* longest observation sequence / mask
MaxBatch == 2      \* largest batch size
MaxCell == 2       \* largest cell_size of the recurrent modules
MaxDim == 2        \* largest ob/action/mixture/hidden width of the feed-forward modules

\* an exception raised by the tensor library.  No tensor that an operation can
\* return in its place is empty (batch sizes and widths are at least 1)
Err == <<>>

\* no value returned yet
NoValue == <<"none">>

----------------------------------------------------------------------------
(* Generic tensor helpers *)

RECURSIVE SumSeq(_)
SumSeq(s) == IF s = <<>> THEN 0 ELSE Head(s) + SumSeq(Tail(s))

Min(a, b) == IF a <= b THEN a ELSE b
Max(a, b) == IF a >= b THEN a ELSE b

RECURSIVE Pow2(_)
Pow2(n) == IF n <= 0 THEN 1 ELSE 2 * Pow2(n - 1)

RECURSIVE MinSeq(_)
MinSeq(s) == IF Len(s) = 1 THEN s[1] ELSE Min(Head(s), MinSeq(Tail(s)))

Zeros(rows, cols) == [b \in 1..rows |-> [j \in 1..cols |-> 0]]

\* F.relu / torch.relu, elementwise on a vector
relu(v) == [i \in 1..Len(v) |-> Max(0, v[i])]

\* torch.tanh, elementwise on a vector: odd, monotone, range [-1, 1]
tanh(v) == [i \in 1..Len(v) |-> Max(-1, Min(1, v[i]))]

\* torch.softmax over a vector: entry k is the fraction <<numerator, denominator>>
\* with numerator 2^(v[k] - min v) (softmax is shift-invariant)
softmax(v) ==
    LET e == [k \in 1..Len(v) |-> Pow2(v[k] - MinSeq(v))]
    IN  [k \in 1..Len(v) |-> <<e[k], SumSeq(e)>>]

----------------------------------------------------------------------------
(* Linear layers and the initialisation policies *)

\* nn.Linear(in, out): constructed with the library's default initialisation
NewLinear(in, out) ==
    [cls |-> "Linear", in |-> in, out |-> out,
     winit |-> "default", binit |-> "default", napply |-> 0]

\* nn.LSTMCell(in, hidden_size)
NewLSTMCell(in, out) ==
    [cls |-> "LSTMCell", in |-> in, out |-> out,
     winit |-> "default", binit |-> "default", napply |-> 0]

\* mini_weight_init(m): uniform(-3e-3, 3e-3) weights, zero bias, Linear only
mini_weight_init(m) ==
    IF m.cls = "Linear"
    THEN [m EXCEPT !.winit = "small", !.binit = "zero", !.napply = @ + 1]
    ELSE m

\* weight_init(m): kaiming_uniform weights, zero bias, Linear only
weight_init(m) ==
    IF m.cls = "Linear"
    THEN [m EXCEPT !.winit = "kaiming", !.binit = "zero", !.napply = @ + 1]
    ELSE m

\* Module.apply(fn) restricted to the sub-layers in names: fn is "weight_init"
\* or "mini_weight_init"
Apply(layers, names, fn) ==
    [n \in DOMAIN layers |->
        IF n \in names
        THEN IF fn = "weight_init" THEN weight_init(layers[n])
             ELSE mini_weight_init(layers[n])
        ELSE layers[n]]

\* weight entry (i, j) of a layer: a fixed pattern standing for the drawn values;
\* a zeroed parameter tensor has only zeros
Weight(m, i, j) == IF m.winit = "zeroed" THEN 0 ELSE ((i + 2 * j) % 3) - 1

\* bias entry: 0 once an initialisation policy has run, the library default otherwise
Bias(m, i) == IF m.binit = "zero" THEN 0 ELSE 1

\* m(v) for a Linear layer m and a vector v
Linear(m, v) ==
    IF Len(v) # m.in THEN Err
    ELSE [i \in 1..m.out |->
            SumSeq([j \in 1..m.in |-> Weight(m, i, j) * v[j]]) + Bias(m, i)]

----------------------------------------------------------------------------
(* Construction *)

\* the fresh call frame: nothing has been called yet
NoCall == [op |-> "none"]

Frame0 ==
    /\ xs' = <<>>
    /\ ac' = <<>>
    /\ hs' = <<>>
    /\ h_masks' = [rank |-> 2, data |-> <<>>]
    /\ hiddens' = <<>>
    /\ ret' = NoValue
    /\ trace' = NoCall

\* torch.randn(shape)*1e-10 - 1: every entry is -1 up to 1e-10
LogStd1(n) == [j \in 1..n |-> -1]
LogStd2(k, n) == [i \in 1..k |-> [j \in 1..n |-> -1]]

\* PolNet.__init__(ob_space, ac_space, h1, h2); box: ac_space is a gym.spaces.Box
PolNet_init(ob, acd, box, h1, h2) ==
    /\ pc = "new"
    /\ LET l0 == [n \in {"fc1", "fc2"} |->
                    IF n = "fc1" THEN NewLinear(ob, h1) ELSE NewLinear(h1, h2)]
           l1 == Apply(l0, {"fc1"}, "weight_init")
           l2 == Apply(l1, {"fc2"}, "weight_init")
           head == IF box THEN "mean_layer" ELSE "output_layer"
           l3 == [n \in {"fc1", "fc2", head} |->
                    IF n = head THEN NewLinear(h2, acd) ELSE l2[n]]
           l4 == Apply(l3, {head}, "mini_weight_init")
       IN  self' = [kind |-> "PolNet", discrete |-> ~box, rnn |-> FALSE,
                    ac_dim |-> acd, mixture |-> 0, h_size |-> 0, cell_size |-> 0,
                    log_std_param |-> IF box THEN LogStd1(acd) ELSE <<>>,
                    layers |-> l4]
    /\ pc' = "idle"
    /\ Frame0

\* MixturePolNet.__init__(ob_space, ac_space, mixture, h1, h2)
MixturePolNet_init(ob, acd, mixture, h1, h2) ==
    /\ pc = "new"
    /\ LET l0 == [n \in {"fc1", "fc2", "mean_layer"} |->
                    CASE n = "fc1" -> NewLinear(ob, h1)
                      [] n = "fc2" -> NewLinear(h1, h2)
                      [] OTHER -> NewLinear(h2, acd * mixture + mixture)]
           l1 == Apply(l0, {"fc1"}, "weight_init")
           l2 == Apply(l1, {"fc2"}, "weight_init")
           l3 == Apply(l2, {"mean_layer"}, "mini_weight_init")
       IN  self' = [kind |-> "MixturePolNet", discrete |-> FALSE, rnn |-> FALSE,
                    ac_dim |-> acd, mixture |-> mixture, h_size |-> 0, cell_size |-> 0,
                    log_std_param |-> LogStd2(mixture, acd),
                    layers |-> l3]
    /\ pc' = "idle"
    /\ Frame0

\* VNet.__init__(ob_space, h1, h2): self.apply(weight_init) visits every sub-layer
VNet_init(ob, h1, h2) ==
    /\ pc = "new"
    /\ LET l0 == [n \in {"fc1", "fc2", "output_layer"} |->
                    CASE n = "fc1" -> NewLinear(ob, h1)
                      [] n = "fc2" -> NewLinear(h1, h2)
                      [] OTHER -> NewLinear(h2, 1)]
           l1 == Apply(l0, DOMAIN l0, "weight_init")
       IN  self' = [kind |-> "VNet", discrete |-> FALSE, rnn |-> FALSE,
                    ac_dim |-> 0, mixture |-> 0, h_size |-> 0, cell_size |-> 0,
                    log_std_param |-> <<>>,
                    layers |-> l1]
    /\ pc' = "idle"
    /\ Frame0

\* QNet.__init__(ob_space, ac_space, h1, h2)
QNet_init(ob, acd, h1, h2) ==
    /\ pc = "new"
    /\ LET l0 == [n \in {"fc1", "fc2", "output_layer"} |->
                    CASE n = "fc1" -> NewLinear(ob, h1)
                      [] n = "fc2" -> NewLinear(acd + h1, h2)
                      [] OTHER -> NewLinear(h2, 1)]
           l1 == Apply(l0, {"fc1"}, "weight_init")
           l2 == Apply(l1, {"fc2"}, "weight_init")
           l3 == Apply(l2, {"output_layer"}, "mini_weight_init")
       IN  self' = [kind |-> "QNet", discrete |-> FALSE, rnn |-> FALSE,
                    ac_dim |-> acd, mixture |-> 0, h_size |-> 0, cell_size |-> 0,
                    log_std_param |-> <<>>,
                    layers |-> l3]
    /\ pc' = "idle"
    /\ Frame0

\* PolNetLSTM.__init__(ob_space, ac_space, h_size, cell_size)
PolNetLSTM_init(ob, acd, box, h_size, cell_size) ==
    /\ pc = "new"
    /\ LET head == IF box THEN "mean_layer" ELSE "output_layer"
           l0 == [n \in {"input_layer", "cell", head} |->
                    CASE n = "input_layer" -> NewLinear(ob, h_size)
                      [] n = "cell" -> NewLSTMCell(h_size, cell_size)
                      [] OTHER -> NewLinear(cell_size, acd)]
           l1 == Apply(l0, {head}, "mini_weight_init")
       IN  self' = [kind |-> "PolNetLSTM", discrete |-> ~box, rnn |-> TRUE,
                    ac_dim |-> acd, mixture |-> 0,
                    h_size |-> h_size, cell_size |-> cell_size,
                    log_std_param |-> IF box THEN LogStd1(acd) ELSE <<>>,
                    layers |-> l1]
    /\ pc' = "idle"
    /\ Frame0

\* VNetLSTM.__init__(ob_space, h_size, cell_size)
VNetLSTM_init(ob, h_size, cell_size) ==
    /\ pc = "new"
    /\ LET l0 == [n \in {"input_layer", "cell", "output_layer"} |->
                    CASE n = "input_layer" -> NewLinear(ob, h_size)
                      [] n = "cell" -> NewLSTMCell(h_size, cell_size)
                      [] OTHER -> NewLinear(cell_size, 1)]
           l1 == Apply(l0, {"output_layer"}, "mini_weight_init")
       IN  self' = [kind |-> "VNetLSTM", discrete |-> FALSE, rnn |-> TRUE,
                    ac_dim |-> 0, mixture |-> 0,
                    h_size |-> h_size, cell_size |-> cell_size,
                    log_std_param |-> <<>>,
                    layers |-> l1]
    /\ pc' = "idle"
    /\ Frame0

----------------------------------------------------------------------------
(* Feed-forward modules *)

\* a layer or an elementwise function applied to a batch works on every row
LinearRows(m, rows) == [b \in 1..Len(rows) |-> Linear(m, rows[b])]
ReluRows(rows) == [b \in 1..Len(rows) |-> relu(rows[b])]
TanhRows(rows) == [b \in 1..Len(rows) |-> tanh(rows[b])]
SoftmaxRows(rows) == [b \in 1..Len(rows) |-> softmax(rows[b])]

\* the concatenation of the rows of a matrix: its contiguous memory
RECURSIVE Flatten(_)
Flatten(m) == IF m = <<>> THEN <<>> ELSE Head(m) \o Flatten(Tail(m))

\* faulty variant of view3: the two trailing sizes are taken in the other order
view3_swapped(flat, d1, d2) ==
    [n \in 1..(Len(flat) \div (d1 * d2)) |->
        [k \in 1..d2 |->
            [j \in 1..d1 |-> flat[(n - 1) * d1 * d2 + (k - 1) * d1 + j]]]]

\* t.view(-1, d1, d2) of contiguous memory flat: the leading size is inferred
view3(flat, d1, d2) ==
    [n \in 1..(Len(flat) \div (d1 * d2)) |->
        [k \in 1..d1 |->
            [j \in 1..d2 |-> flat[(n - 1) * d1 * d2 + (k - 1) * d2 + j]]]]

\* m[:, lo:hi] with Python's half-open, 0-based bounds
SliceCols(m, lo, hi) == [b \in 1..Len(m) |-> SubSeq(m[b], lo + 1, hi)]

\* faulty variant of cat1: torch.cat([b, a], dim=1)
cat1_swapped(a, b) ==
    IF Len(a) # Len(b) THEN Err
    ELSE [n \in 1..Len(a) |-> b[n] \o a[n]]

\* torch.cat([a, b], dim=1)
cat1(a, b) ==
    IF Len(a) # Len(b) THEN Err
    ELSE [n \in 1..Len(a) |-> a[n] \o b[n]]

\* the two hidden layers shared by PolNet, MixturePolNet and VNet
Hidden2(s, ob) ==
    ReluRows(LinearRows(s.layers["fc2"], ReluRows(LinearRows(s.layers["fc1"], ob))))

\* PolNet.forward(ob)
PolNet_fwd(s, ob) ==
    LET h == Hidden2(s, ob)
    IN  IF ~s.discrete
        THEN <<TanhRows(LinearRows(s.layers["mean_layer"], h)), s.log_std_param>>
        ELSE SoftmaxRows(LinearRows(s.layers["output_layer"], h))

\* the tanh-squashed head output of MixturePolNet.forward (local variable out)
MixturePolNet_out(s, ob) ==
    TanhRows(LinearRows(s.layers["mean_layer"], Hidden2(s, ob)))

\* MixturePolNet.forward(ob): returns <<pi, mean, log_std_param>>
MixturePolNet_fwd(s, ob) ==
    LET out == MixturePolNet_out(s, ob)
        n == s.ac_dim * s.mixture
        mean == view3(Flatten(SliceCols(out, 0, n)), s.mixture, s.ac_dim)
        pi == SoftmaxRows(SliceCols(out, n, n + s.mixture))
    IN  <<pi, mean, s.log_std_param>>

\* VNet.forward(ob)
VNet_fwd(s, ob) ==
    LinearRows(s.layers["output_layer"], Hidden2(s, ob))

\* QNet.forward(ob, ac): the value fed to each affine layer, and the result
QNet_fc1_in(s, ob, a) == ob

QNet_fc2_in(s, ob, a) ==
    cat1(ReluRows(LinearRows(s.layers["fc1"], QNet_fc1_in(s, ob, a))), a)

QNet_fwd(s, ob, a) ==
    LET h == QNet_fc2_in(s, ob, a)
    IN  IF h = Err \/ (\E b \in 1..Len(h) : Len(h[b]) # s.layers["fc2"].in)
        THEN Err
        ELSE LinearRows(s.layers["output_layer"], ReluRows(LinearRows(s.layers["fc2"], h)))

\* a feed-forward call leaves the module and the recurrent locals alone
FFCall(ob, a, result, tr) ==
    /\ xs' = ob
    /\ ac' = a
    /\ ret' = result
    /\ trace' = tr
    /\ hs' = <<>>
    /\ h_masks' = [rank |-> 2, data |-> <<>>]
    /\ hiddens' = <<>>
    /\ pc' = "done"
    /\ UNCHANGED self

PolNet_forward(ob) ==
    /\ pc = "idle" /\ self.kind = "PolNet"
    /\ FFCall(ob, <<>>, PolNet_fwd(self, ob),
              [op |-> "PolNet.forward"])

MixturePolNet_forward(ob) ==
    /\ pc = "idle" /\ self.kind = "MixturePolNet"
    /\ FFCall(ob, <<>>, MixturePolNet_fwd(self, ob),
              [op |-> "MixturePolNet.forward", out |-> MixturePolNet_out(self, ob)])

VNet_forward(ob) ==
    /\ pc = "idle" /\ self.kind = "VNet"
    /\ FFCall(ob, <<>>, VNet_fwd(self, ob),
              [op |-> "VNet.forward"])

QNet_forward(ob, a) ==
    /\ pc = "idle" /\ self.kind = "QNet"
    /\ FFCall(ob, a, QNet_fwd(self, ob, a),
              [op |-> "QNet.forward",
               fc1_in |-> QNet_fc1_in(self, ob, a),
               fc2_in |-> QNet_fc2_in(self, ob, a)])

----------------------------------------------------------------------------
(* Recurrent modules *)

\* 1 - mask, elementwise; a mask row of rank 1 is a vector, of rank 2 a matrix
OneMinus(m, rank) ==
    IF rank = 1 THEN [b \in 1..Len(m) |-> 1 - m[b]]
    ELSE [b \in 1..Len(m) |-> [j \in 1..Len(m[b]) |-> 1 - m[b][j]]]

\* a * m with the tensor library's broadcasting: a is a non-empty matrix, m a
\* non-empty tensor of rank 1 or 2.  Shapes are aligned from the last axis; a
\* rank-1 tensor of n entries counts as a 1 x n matrix
Mul(a, m, rank) ==
    LET m2 == IF rank = 1 THEN <<m>> ELSE m
        r1 == Len(a)
        c1 == Len(a[1])
        r2 == Len(m2)
        c2 == Len(m2[1])
    IN  IF ~(r1 = r2 \/ r1 = 1 \/ r2 = 1) \/ ~(c1 = c2 \/ c1 = 1 \/ c2 = 1)
        THEN Err
        ELSE [i \in 1..Max(r1, r2) |->
                [j \in 1..Max(c1, c2) |->
                    a[IF r1 = 1 THEN 1 ELSE i][IF c1 = 1 THEN 1 ELSE j]
                    * m2[IF r2 = 1 THEN 1 ELSE i][IF c2 = 1 THEN 1 ELSE j]]]

\* t.reshape(rows, cols) of a tensor whose memory is flat
reshape(flat, rows, cols) ==
    IF Len(flat) # rows * cols THEN Err
    ELSE [b \in 1..rows |-> [j \in 1..cols |-> flat[(b - 1) * cols + j]]]

\* init_hs(batch_size): a pair of fresh zero tensors (batch_size, cell_size)
init_hs(s, batch_size) ==
    <<Zeros(batch_size, s.cell_size), Zeros(batch_size, s.cell_size)>>

\* faulty variant of MaskHs: only the cell output is masked, the cell memory is kept
MaskHs_only_h(hs0, mask, rank) ==
    <<Mul(hs0[1], OneMinus(mask, rank), rank), hs0[2]>>

\* hs = (hs[0] * (1 - mask), hs[1] * (1 - mask))
MaskHs(hs0, mask, rank) ==
    <<Mul(hs0[1], OneMinus(mask, rank), rank), Mul(hs0[2], OneMinus(mask, rank), rank)>>

\* one row of self.cell: the new <<h, c>> of one batch entry from its input x
\* and its own previous h, c.  nn.LSTMCell is library code; what is kept of it
\* is that it is a deterministic function, row by row, of x, h and c
CellRow(x, h, c) ==
    LET sm == SumSeq(x) + SumSeq(h)
        c1 == [j \in 1..Len(c) |-> (c[j] + sm + j) % 3]
    IN  <<[j \in 1..Len(c) |-> (2 * c1[j] + sm) % 3], c1>>

\* self.cell(x, hs): the library rejects an input or a state of the wrong shape
cell(s, x, hs0) ==
    LET m == s.layers["cell"]
        ok(t) == /\ Len(t) = Len(x)
                 /\ \A b \in 1..Len(t) : Len(t[b]) = m.out
    IN  IF \/ \E b \in 1..Len(x) : Len(x[b]) # m.in
           \/ ~ok(hs0[1])
           \/ ~ok(hs0[2])
        THEN Err
        ELSE <<[b \in 1..Len(x) |-> CellRow(x[b], hs0[1][b], hs0[2][b])[1]],
               [b \in 1..Len(x) |-> CellRow(x[b], hs0[1][b], hs0[2][b])[2]]>>

\* the body of the for-loop: mask the carried state, then step the cell
LoopBody(s, x, mask, rank, hs0) ==
    LET masked == MaskHs(hs0, mask, rank)
    IN  IF masked[1] = Err \/ masked[2] = Err THEN Err
        ELSE cell(s, x, masked)

\* faulty variant of ZipLen: the last pair is left out
ZipLen_short(a, b) == IF Min(Len(a), Len(b)) > 1 THEN Min(Len(a), Len(b)) - 1 ELSE Min(Len(a), Len(b))

\* number of iterations of  for x, mask in zip(xs, h_masks)
ZipLen(a, b) == Min(Len(a), Len(b))

\* xs = torch.relu(self.input_layer(xs))
Project(s, obs) ==
    [t \in 1..Len(obs) |-> ReluRows(LinearRows(s.layers["input_layer"], obs[t]))]

\* faulty variant of ReshapeHs: the incoming pair is dropped for a fresh zero pair
ReshapeHs_fresh(s, hs_in, batch_size) ==
    <<Zeros(batch_size, s.cell_size), Zeros(batch_size, s.cell_size)>>

\* hs = (hs[0].reshape(batch_size, cell_size), hs[1].reshape(batch_size, cell_size))
ReshapeHs(s, hs_in, batch_size) ==
    <<reshape(Flatten(hs_in[1]), batch_size, s.cell_size),
      reshape(Flatten(hs_in[2]), batch_size, s.cell_size)>>

\* faulty variant of Returned: the pair handed back is (hs[0], hs[0])
Returned_hh(s, hid, hs1) ==
    LET back == <<hs1[1], hs1[1]>>
    IN  IF hid = <<>> THEN Err
        ELSE IF s.kind = "VNetLSTM"
             THEN <<[t \in 1..Len(hid) |-> LinearRows(s.layers["output_layer"], hid[t])], back>>
        ELSE IF ~s.discrete
             THEN <<[t \in 1..Len(hid) |-> TanhRows(LinearRows(s.layers["mean_layer"], hid[t]))],
                    [t \in 1..Len(hid) |->
                        [b \in 1..Len(hid[t]) |-> s.log_std_param]],
                    back>>
        ELSE <<[t \in 1..Len(hid) |-> SoftmaxRows(LinearRows(s.layers["output_layer"], hid[t]))], back>>

\* the values returned after the loop, from the list hiddens and the final hs;
\* torch.cat raises on an empty list
Returned(s, hid, hs1) ==
    IF hid = <<>> THEN Err
    ELSE IF s.kind = "VNetLSTM"
             THEN <<[t \in 1..Len(hid) |-> LinearRows(s.layers["output_layer"], hid[t])], hs1>>
        ELSE IF ~s.discrete
             THEN <<[t \in 1..Len(hid) |-> TanhRows(LinearRows(s.layers["mean_layer"], hid[t]))],
                    [t \in 1..Len(hid) |->
                        [b \in 1..Len(hid[t]) |-> s.log_std_param]],
                    hs1>>
        ELSE <<[t \in 1..Len(hid) |-> SoftmaxRows(LinearRows(s.layers["output_layer"], hid[t]))], hs1>>

\* the zip-loop run to its end from carried state hs0 over projected inputs pxs:
\* <<hiddens, final hs>>, or Err as soon as one iteration raises
RECURSIVE Scan(_, _, _, _, _, _)
Scan(s, pxs, masks, rank, hs0, hid) ==
    IF pxs = <<>> \/ masks = <<>> THEN <<hid, hs0>>
    ELSE LET nh == LoopBody(s, Head(pxs), Head(masks), rank, hs0)
         IN  IF nh = Err THEN Err
             ELSE Scan(s, Tail(pxs), Tail(masks), rank, nh, Append(hid, nh[1]))

\* PolNetLSTM.forward / VNetLSTM.forward as a function of its arguments
\* (obs has batch_size rows per timestep; masks is [rank, data])
forward(s, obs, hs_in, masks, batch_size) ==
    LET hs0 == ReshapeHs(s, hs_in, batch_size)
        run == Scan(s, Project(s, obs), masks.data, masks.rank - 1, hs0, <<>>)
    IN  IF hs0[1] = Err \/ hs0[2] = Err THEN Err
        ELSE IF run = Err THEN Err
        ELSE Returned(s, run[1], run[2])

\* entry of forward up to the loop
rnn_begin(obs, hs_in, masks, batch_size) ==
    /\ pc = "idle"
    /\ LET hs0 == ReshapeHs(self, hs_in, batch_size)
           bad == hs0[1] = Err \/ hs0[2] = Err
       IN  /\ hs' = IF bad THEN <<>> ELSE hs0
           /\ pc' = IF bad THEN "done" ELSE "loop"
           /\ ret' = IF bad THEN Err ELSE NoValue
    /\ xs' = Project(self, obs)
    /\ h_masks' = masks
    /\ hiddens' = <<>>
    /\ ac' = <<>>
    /\ trace' = [op |-> "forward",
                 args |-> [xs |-> obs, hs |-> hs_in, h_masks |-> masks],
                 time_seq |-> Len(obs), batch_size |-> batch_size,
                 steps |-> <<>>, carried |-> <<>>, cell_in |-> <<>>]
    /\ UNCHANGED self

\* one iteration of the loop, on the next pair of zip(xs, h_masks)
rnn_step ==
    /\ pc = "loop"
    /\ Len(hiddens) < ZipLen(xs, h_masks.data)
    /\ LET i == Len(hiddens) + 1
           rank == h_masks.rank - 1
           nh == LoopBody(self, xs[i], h_masks.data[i], rank, hs)
       IN  /\ trace' = [trace EXCEPT !.steps = Append(@, i),
                                     !.carried = hs,
                                     !.cell_in = MaskHs(hs, h_masks.data[i], rank)]
           /\ IF nh = Err
              THEN /\ pc' = "done"
                   /\ ret' = Err
                   /\ UNCHANGED <<hs, hiddens>>
              ELSE /\ hs' = nh
                   /\ hiddens' = Append(hiddens, nh[1])
                   /\ UNCHANGED <<pc, ret>>
    /\ UNCHANGED <<self, xs, ac, h_masks>>

\* after the loop: concatenate, apply the head, return
rnn_end ==
    /\ pc = "loop"
    /\ Len(hiddens) = ZipLen(xs, h_masks.data)
    /\ ret' = Returned(self, hiddens, hs)
    /\ pc' = "done"
    /\ UNCHANGED <<self, xs, ac, hs, h_masks, hiddens, trace>>

\* faulty variant of rnn_init_hs: zero_() hits the first parameter itself
rnn_init_hs_zeroing(batch_size) ==
    /\ pc = "idle"
    /\ ret' = init_hs(self, batch_size)
    /\ trace' = [op |-> "init_hs", batch_size |-> batch_size]
    /\ xs' = <<>>
    /\ ac' = <<>>
    /\ hs' = <<>>
    /\ h_masks' = [rank |-> 2, data |-> <<>>]
    /\ hiddens' = <<>>
    /\ pc' = "done"
    /\ self' = [self EXCEPT !.layers["input_layer"].winit = "zeroed"]

\* the init_hs method called by the owner of the module
rnn_init_hs(batch_size) ==
    /\ pc = "idle"
    /\ ret' = init_hs(self, batch_size)
    /\ trace' = [op |-> "init_hs", batch_size |-> batch_size]
    /\ xs' = <<>>
    /\ ac' = <<>>
    /\ hs' = <<>>
    /\ h_masks' = [rank |-> 2, data |-> <<>>]
    /\ hiddens' = <<>>
    /\ pc' = "done"
    /\ UNCHANGED self

PolNetLSTM_init_hs(batch_size) ==
    pc = "idle" /\ self.kind = "PolNetLSTM" /\ rnn_init_hs(batch_size)

PolNetLSTM_forward_begin(obs, hs_in, masks, batch_size) ==
    pc = "idle" /\ self.kind = "PolNetLSTM" /\ rnn_begin(obs, hs_in, masks, batch_size)

PolNetLSTM_forward_step == self.kind = "PolNetLSTM" /\ rnn_step

PolNetLSTM_forward_end == self.kind = "PolNetLSTM" /\ rnn_end

VNetLSTM_init_hs(batch_size) ==
    pc = "idle" /\ self.kind = "VNetLSTM" /\ rnn_init_hs(batch_size)

VNetLSTM_forward_begin(obs, hs_in, masks, batch_size) ==
    pc = "idle" /\ self.kind = "VNetLSTM" /\ rnn_begin(obs, hs_in, masks, batch_size)

VNetLSTM_forward_step == self.kind = "VNetLSTM" /\ rnn_step

VNetLSTM_forward_end == self.kind = "VNetLSTM" /\ rnn_end

----------------------------------------------------------------------------
(* Inputs supplied by the caller *)

Dims == 1..MaxDim

\* batches of observations: batch rows of width ob
ObInputs(batch, ob) ==
    {[b \in 1..batch |-> [i \in 1..ob |-> ((2 * b + i + q) % 3) - 1]] : q \in 0..2}

\* batches of actions
AcInputs(batch, acd) ==
    {[b \in 1..batch |-> [i \in 1..acd |-> ((b + 2 * i + q) % 3) - 1]] : q \in 0..1}

\* observation sequences (time, batch, ob)
XsInputs(T, batch, ob) ==
    {[t \in 1..T |-> [b \in 1..batch |-> [i \in 1..ob |-> ((t + 2 * b + i) % 3) - 1]]]}

\* hidden-state pairs handed in by the caller for a batch and a cell size: the
\* zero pair of init_hs, a pair of (batch, cell) tensors with non-zero entries,
\* and a pair of (1, batch*cell) tensors with non-zero entries
HsInputs(batch, cellsz) ==
    {<<Zeros(batch, cellsz), Zeros(batch, cellsz)>>,
     <<[b \in 1..batch |-> [j \in 1..cellsz |-> ((b - 1) * cellsz + j) % 3]],
       [b \in 1..batch |-> [j \in 1..cellsz |-> (2 * ((b - 1) * cellsz + j) + 1) % 3]]>>,
     <<[r \in 1..1 |-> [i \in 1..(batch * cellsz) |-> (i + 1) % 3]],
       [r \in 1..1 |-> [i \in 1..(batch * cellsz) |-> (2 * i + 2) % 3]]>>}

\* one row of a reset mask: no entry restarts, all restart, or exactly one does
MaskRows(batch) ==
    {[b \in 1..batch |-> 0], [b \in 1..batch |-> 1]}
    \cup {[b \in 1..batch |-> IF b = k THEN 1 ELSE 0] : k \in 1..batch}

\* reset masks of M rows for a batch: shape (M, batch) or (M, batch, 1)
MaskInputs(M, batch) ==
    {[rank |-> 2, data |-> d] : d \in [1..M -> MaskRows(batch)]}
    \cup {[rank |-> 3, data |-> [t \in 1..M |-> [b \in 1..batch |-> <<d[t][b]>>]]] :
            d \in [1..M -> MaskRows(batch)]}

\* mask lengths tried for a sequence of T steps
MaskLens(T) == {M \in 0..MaxT : M >= T - 1 /\ M <= T + 1}

----------------------------------------------------------------------------
(* The state machine *)

Init ==
    /\ self = [kind |-> "none", discrete |-> FALSE, rnn |-> FALSE,
               ac_dim |-> 0, mixture |-> 0, h_size |-> 0, cell_size |-> 0,
               log_std_param |-> <<>>, layers |-> <<>>]
    /\ pc = "new"
    /\ xs = <<>>
    /\ ac = <<>>
    /\ hs = <<>>
    /\ h_masks = [rank |-> 2, data |-> <<>>]
    /\ hiddens = <<>>
    /\ ret = NoValue
    /\ trace = NoCall

\* the caller takes the returned value (or catches the exception): the frame
\* of the call is gone, the module stays
Return ==
    /\ pc = "done"
    /\ pc' = "idle"
    /\ Frame0
    /\ UNCHANGED self

\* batch sizes a caller of a method of class kind may use: none unless a module
\* of that class exists and is not inside a call
Batches(kind) == IF pc = "idle" /\ self.kind = kind THEN 1..MaxBatch ELSE {}

\* width of the input of a named sub-layer (0 if the module has none)
InWidth(s, name) == IF name \in DOMAIN s.layers THEN s.layers[name].in ELSE 0

Next ==
    \/ \E ob \in Dims, acd \in Dims, box \in BOOLEAN, h1 \in Dims, h2 \in Dims :
          PolNet_init(ob, acd, box, h1, h2)
    \/ \E ob \in Dims, acd \in Dims, k \in Dims, h1 \in Dims, h2 \in Dims :
          MixturePolNet_init(ob, acd, k, h1, h2)
    \/ \E ob \in Dims, h1 \in Dims, h2 \in Dims : VNet_init(ob, h1, h2)
    \/ \E ob \in Dims, acd \in Dims, h1 \in Dims, h2 \in Dims : QNet_init(ob, acd, h1, h2)
    \/ \E box \in BOOLEAN, c \in 1..MaxCell : PolNetLSTM_init(1, 2, box, 2, c)
    \/ \E c \in 1..MaxCell : VNetLSTM_init(1, 2, c)
    \/ \E batch \in Batches("PolNet") :
         \E ob \in ObInputs(batch, InWidth(self, "fc1")) : PolNet_forward(ob)
    \/ \E batch \in Batches("MixturePolNet") :
         \E ob \in ObInputs(batch, InWidth(self, "fc1")) : MixturePolNet_forward(ob)
    \/ \E batch \in Batches("VNet") :
         \E ob \in ObInputs(batch, InWidth(self, "fc1")) : VNet_forward(ob)
    \/ \E batch \in Batches("QNet") :
         \E ob \in ObInputs(batch, InWidth(self, "fc1")),
            a \in AcInputs(batch, self.ac_dim) : QNet_forward(ob, a)
    \/ \E batch \in Batches("PolNetLSTM") : PolNetLSTM_init_hs(batch)
    \/ \E batch \in Batches("VNetLSTM") : VNetLSTM_init_hs(batch)
    \/ \E batch \in Batches("PolNetLSTM"), T \in 0..MaxT :
         \E M \in MaskLens(T) :
           \E obs \in XsInputs(T, batch, InWidth(self, "input_layer")),
              hs_in \in HsInputs(batch, self.cell_size),
              masks \in MaskInputs(M, batch) :
                PolNetLSTM_forward_begin(obs, hs_in, masks, batch)
    \/ \E batch \in Batches("VNetLSTM"), T \in 0..MaxT :
         \E M \in MaskLens(T) :
           \E obs \in XsInputs(T, batch, InWidth(self, "input_layer")),
              hs_in \in HsInputs(batch, self.cell_size),
              masks \in MaskInputs(M, batch) :
                VNetLSTM_forward_begin(obs, hs_in, masks, batch)
    \/ PolNetLSTM_forward_step
    \/ PolNetLSTM_forward_end
    \/ VNetLSTM_forward_step
    \/ VNetLSTM_forward_end
    \/ Return

Spec == Init /\ [][Next]_vars

----------------------------------------------------------------------------
(* Properties: construction *)

Constructed == pc # "new"

LinearLayers == {n \in DOMAIN self.layers : self.layers[n].cls = "Linear"}

\* the layers that produce an output of the module: policy mean/logit heads, value heads
OutputHeads == {"mean_layer", "output_layer"}

\* C4: after construction every output-producing linear layer carries the
\* small initialisation (small weights, zero bias) and every other linear layer
\* the default policy (kaiming weights, zero bias); none is left with neither.
C4_InitPolicyByRole ==
    Constructed =>
        \A n \in LinearLayers :
            /\ self.layers[n].binit = "zero"
            /\ self.layers[n].winit = (IF n \in OutputHeads THEN "small" ELSE "kaiming")

\* C5: during construction an initialisation policy is applied exactly once to
\* each linear sub-layer of the module.
C5_AppliedExactlyOnce ==
    Constructed => \A n \in LinearLayers : self.layers[n].napply = 1

----------------------------------------------------------------------------
(* Properties: feed-forward modules *)

\* C7: MixturePolNet.forward splits each row of the head output, of width
\* action_dim*mixture + mixture, so that every index is used once: 0-based index
\* k*action_dim + j is the mean of component k, action dimension j, the last
\* mixture indices are the softmax-normalised component weights, and both
\* outputs have the batch size of the input.
C7_MixtureSplit ==
    (pc = "done" /\ trace.op = "MixturePolNet.forward") =>
        LET A == self.ac_dim
            K == self.mixture
            B == Len(xs)
            out == trace.out
            pi == ret[1]
            mean == ret[2]
        IN  /\ Len(pi) = B
            /\ Len(mean) = B
            /\ \A b \in 1..B :
                /\ Len(out[b]) = A * K + K
                /\ Len(mean[b]) = K
                /\ \A k \in 0..(K - 1) :
                    /\ Len(mean[b][k + 1]) = A
                    /\ \A j \in 0..(A - 1) :
                          mean[b][k + 1][j + 1] = out[b][k * A + j + 1]
                /\ Len(pi[b]) = K
                /\ pi[b] = softmax([k \in 1..K |-> out[b][A * K + k]])

\* a MixturePolNet.forward call on a batch of two rows with two components of
\* two action dimensions whose head outputs are not all equal
C7_Witness ==
    /\ pc = "done"
    /\ trace.op = "MixturePolNet.forward"
    /\ self.ac_dim = 2
    /\ self.mixture = 2
    /\ Len(xs) = 2
    /\ \E i, j \in 1..4 : trace.out[1][i] # trace.out[1][j]
    /\ ret[2][1][1] # ret[2][1][2]

\* C8: in QNet.forward the first affine layer receives the observation alone
\* and the second a vector of width h1 + action_dim whose first h1 entries are
\* the post-ReLU hidden representation and whose last action_dim entries are the
\* action; the result is a (batch, 1) tensor.
C8_ActionJoinsHidden ==
    (pc = "done" /\ trace.op = "QNet.forward") =>
        LET h1 == self.layers["fc1"].out
            A == self.ac_dim
            B == Len(xs)
        IN  /\ trace.fc1_in = xs
            /\ \A b \in 1..B : Len(trace.fc1_in[b]) = self.layers["fc1"].in
            /\ Len(trace.fc2_in) = B
            /\ \A b \in 1..B :
                /\ Len(trace.fc2_in[b]) = h1 + A
                /\ \A i \in 1..h1 :
                      trace.fc2_in[b][i] = relu(Linear(self.layers["fc1"], xs[b]))[i]
                /\ \A i \in 1..A : trace.fc2_in[b][h1 + i] = ac[b][i]
            /\ Len(ret) = B
            /\ \A b \in 1..B : Len(ret[b]) = 1

\* a QNet.forward call where hidden representation and action have the same
\* width and differ, on a batch of two
C8_Witness ==
    /\ pc = "done"
    /\ trace.op = "QNet.forward"
    /\ Len(xs) = 2
    /\ self.layers["fc1"].out = self.ac_dim
    /\ \E b \in 1..2 :
          SubSeq(trace.fc2_in[b], 1, self.ac_dim) # ac[b]

----------------------------------------------------------------------------
(* Properties: recurrent modules *)

\* a recurrent forward call has ended (returned or raised)
RnnDone == pc = "done" /\ trace.op = "forward"

\* the per-timestep outputs of a returned tuple (everything but the final hs),
\* and the final hidden-state pair
Outs(r) == SubSeq(r, 1, Len(r) - 1)
FinalHs(r) == r[Len(r)]

\* the outputs from timestep index t on
OutsFrom(r, t) == [k \in 1..(Len(r) - 1) |-> SubSeq(r[k], t, Len(r[k]))]

\* the outputs of r1 followed in time by those of r2
OutsJoin(r1, r2) == [k \in 1..(Len(r1) - 1) |-> r1[k] \o r2[k]]

\* value of mask entry (t, b), whatever the rank of the mask
MaskAt(masks, t, b) ==
    IF masks.rank = 2 THEN masks.data[t][b] ELSE masks.data[t][b][1]

RowAll(masks, t, v) == \A b \in 1..Len(masks.data[t]) : MaskAt(masks, t, b) = v

SubMask(masks, lo, hi) == [rank |-> masks.rank, data |-> SubSeq(masks.data, lo, hi)]

\* number of loop iterations a call with these arguments is due
Due(a) == IF Len(a.xs) <= Len(a.h_masks.data) THEN Len(a.xs) ELSE Len(a.h_masks.data)

\* C1: if the mask at timestep t is 1 for every batch entry, the outputs from t
\* on and the returned hidden-state pair equal those of forward run on the
\* sub-sequence starting at t from the zero pair of init_hs, with the same masks
\* from t on (and the one call raises exactly if the other does).
C1_ResetEqualsFresh ==
    RnnDone =>
        LET a == trace.args
            B == trace.batch_size
        IN  \A t \in 1..Due(a) :
                RowAll(a.h_masks, t, 1) =>
                    LET sub == forward(self, SubSeq(a.xs, t, Len(a.xs)),
                                       init_hs(self, B),
                                       SubMask(a.h_masks, t, Len(a.h_masks.data)), B)
                    IN  IF ret = Err THEN sub = Err
                        ELSE /\ sub # Err
                             /\ OutsFrom(ret, t) = Outs(sub)
                             /\ FinalHs(ret) = FinalHs(sub)

\* a returned call of at least two steps, entered with a non-zero hidden state
\* on a batch of two, whose second mask row is all ones
C1_Witness ==
    /\ RnnDone
    /\ ret # Err
    /\ trace.batch_size = 2
    /\ Len(trace.steps) >= 2
    /\ RowAll(h_masks, 2, 1)
    /\ RowAll(h_masks, 1, 0)
    /\ trace.args.hs # init_hs(self, 2)
    /\ trace.carried # init_hs(self, 2)

\* T successive single-step calls from index i on, threading the returned pair:
\* <<outputs so far, final hs>>, or Err if a call raises
RECURSIVE Chain(_, _, _, _, _, _, _)
Chain(s, obs, masks, hs_in, batch, i, acc) ==
    IF i > Len(obs) THEN <<acc, hs_in>>
    ELSE LET r == forward(s, <<obs[i]>>, hs_in, SubMask(masks, i, i), batch)
         IN  IF r = Err THEN Err
             ELSE Chain(s, obs, masks, FinalHs(r), batch, i + 1,
                        IF acc = <<>> THEN Outs(r)
                        ELSE [k \in 1..Len(acc) |-> acc[k] \o r[k]])

\* C2: with an all-zero mask over a sequence of T >= 1 steps, one call over the
\* whole sequence returns the outputs and final hidden-state pair of T
\* successive single-step calls that thread the returned pair.
C2_WholeEqualsSingleSteps ==
    RnnDone =>
        LET a == trace.args
            T == Len(a.xs)
        IN  (/\ T >= 1
             /\ Len(a.h_masks.data) = T
             /\ \A t \in 1..T : RowAll(a.h_masks, t, 0)) =>
                LET ch == Chain(self, a.xs, a.h_masks, a.hs, trace.batch_size, 1, <<>>)
                IN  IF ret = Err THEN ch = Err
                    ELSE /\ ch # Err
                         /\ Outs(ret) = ch[1]
                         /\ FinalHs(ret) = ch[2]

\* a returned call of two steps with an all-zero mask and a non-zero incoming state
C2_Witness ==
    /\ RnnDone
    /\ ret # Err
    /\ Len(trace.args.xs) = 2
    /\ Len(h_masks.data) = 2
    /\ RowAll(h_masks, 1, 0)
    /\ RowAll(h_masks, 2, 0)
    /\ trace.batch_size = 2
    /\ trace.args.hs # init_hs(self, 2)
    /\ FinalHs(ret) # init_hs(self, 2)

\* C10: for every split point 0 < k < T and every mask with a row for each
\* timestep, forward on steps 0..k-1 followed by forward on steps k..T-1 from
\* the pair the first call returned gives the outputs, in order, and the final
\* pair of the single call on the whole sequence.
C10_SplitEqualsWhole ==
    RnnDone =>
        LET a == trace.args
            T == Len(a.xs)
            M == Len(a.h_masks.data)
            B == trace.batch_size
        IN  \A k \in 1..(T - 1) :
                M > k =>
                    LET r1 == forward(self, SubSeq(a.xs, 1, k), a.hs,
                                      SubMask(a.h_masks, 1, k), B)
                        r2 == forward(self, SubSeq(a.xs, k + 1, T), FinalHs(r1),
                                      SubMask(a.h_masks, k + 1, M), B)
                    IN  IF ret = Err THEN r1 = Err \/ r2 = Err
                        ELSE /\ r1 # Err
                             /\ r2 # Err
                             /\ Outs(ret) = OutsJoin(r1, r2)
                             /\ FinalHs(ret) = FinalHs(r2)

\* a returned call of two steps on a batch of two whose mask resets one batch
\* entry at the second step, entered with a non-zero state
C10_Witness ==
    /\ RnnDone
    /\ ret # Err
    /\ Len(trace.args.xs) = 2
    /\ Len(h_masks.data) = 2
    /\ trace.batch_size = 2
    /\ MaskAt(h_masks, 2, 1) = 1
    /\ MaskAt(h_masks, 2, 2) = 0
    /\ trace.args.hs # init_hs(self, 2)

\* the loop has run at least one iteration of the current/last forward call
Stepped == trace.op = "forward" /\ trace.steps # <<>>

\* index of the last timestep processed
LastStep == trace.steps[Len(trace.steps)]

\* component k of the state handed to the cell at the last step is the carried
\* component with the rows of the restarted batch entries zeroed, all other
\* rows untouched
MaskedByEntry(k) ==
    LET before == trace.carried[k]
        after == trace.cell_in[k]
    IN  /\ after # Err
        /\ Len(after) = Len(before)
        /\ \A b \in 1..Len(before) :
            /\ Len(after[b]) = Len(before[b])
            /\ \A j \in 1..Len(before[b]) :
                  after[b][j] = IF MaskAt(h_masks, LastStep, b) = 1 THEN 0
                                ELSE before[b][j]

\* C3: with a reset mask of shape (time_steps, batch), right before the cell
\* step at timestep t both components of the carried pair are zeroed for
\* exactly the batch entries whose mask value at (t, b) is 1 and passed on
\* unchanged for the others.  (Stated for the steps that do not raise.)
C3_ResetPerBatchEntry ==
    (Stepped /\ h_masks.rank = 2 /\ ret # Err) => (MaskedByEntry(1) /\ MaskedByEntry(2))

\* C9 as stated: a forward call over T timesteps steps the cell exactly T
\* times, in order, and returns T outputs and the state after step T-1, also
\* when the mask has fewer than T rows.  (Stated for the calls that return.)
C9_AllTimestepsStepped ==
    (RnnDone /\ ret # Err) =>
        LET T == trace.time_seq
        IN  /\ trace.steps = [i \in 1..T |-> i]
            /\ \A k \in 1..(Len(ret) - 1) : Len(ret[k]) = T
            /\ FinalHs(ret) = hs

\* the loop run over the first n pairs from the reshaped incoming state:
\* <<the hidden outputs after steps 1..n, the pair after step n>>, or Err if
\* one of the steps raises
RunFirst(n) ==
    LET a == trace.args
    IN  Scan(self, SubSeq(Project(self, a.xs), 1, n), SubSeq(a.h_masks.data, 1, n),
             a.h_masks.rank - 1, ReshapeHs(self, a.hs, trace.batch_size), <<>>)

\* C9 (amended): the cell is stepped on timesteps 0, 1, ... in increasing order,
\* min(T, R) times for R mask rows; a call that returns has taken exactly
\* min(T, R) >= 1 steps, returns min(T, R) outputs, output t computed from the
\* hidden state after step t, and returns the state after the last step taken;
\* a call that raises has taken no step because min(T, R) = 0 or raised in its
\* last step.
C9_StepsAreZipLength ==
    RnnDone =>
        LET T == trace.time_seq
            R == Len(trace.args.h_masks.data)
            n == IF T <= R THEN T ELSE R
            m == Len(trace.steps)
        IN  /\ m <= n
            /\ trace.steps = [i \in 1..m |-> i]
            /\ IF ret # Err
               THEN LET run == RunFirst(n)
                    IN  /\ n >= 1
                        /\ m = n
                        /\ run # Err
                        /\ hiddens = run[1]
                        /\ FinalHs(ret) = run[2]
                        /\ \A k \in 1..(Len(ret) - 1) :
                            /\ Len(ret[k]) = n
                            /\ \A t \in 1..n :
                                  ret[k][t] = Returned(self, <<run[1][t]>>, run[2])[k][1]
               ELSE \/ n = 0
                    \/ /\ m >= 1
                       /\ RunFirst(m) = Err
                       /\ RunFirst(m - 1) # Err

\* a returned call whose mask has fewer rows than the sequence has timesteps
C9_Witness ==
    /\ RnnDone
    /\ ret # Err
    /\ trace.time_seq = 2
    /\ Len(h_masks.data) = 1
    /\ Len(trace.steps) = 1

\* C6: once constructed, no forward or init_hs call changes a parameter or an
\* attribute of the module, and what a recurrent forward returns is a function
\* of the module and of its arguments alone: the recurrent state lives only in
\* the pair passed in and returned.
C6_ModuleNeverChanges ==
    [][/\ Constructed => self' = self
       /\ RnnDone' =>
            ret' = forward(self', trace'.args.xs, trace'.args.hs,
                           trace'.args.h_masks, trace'.batch_size)]_vars

\* a recurrent forward call of two steps that returned a non-zero state
C6_Witness ==
    /\ RnnDone
    /\ ret # Err
    /\ Len(trace.steps) = 2
    /\ FinalHs(ret) # init_hs(self, trace.batch_size)

====
